---------------------------- MODULE Spec2Model ----------------------------
(***************************************************************************)
(* code_prompt: file selection and rendering pipeline.                     *)
(*                                                                         *)
(* Strings are sequences of one-character strings, so that splitting,      *)
(* line iteration and pattern matching are computed character by           *)
(* character as the Rust code computes them.                               *)
(*                                                                         *)
(* Specifications:                                                         *)
(*   SpecSplit  - utils::smart_pattern_split on every bounded input        *)
(*   SpecRender - Args::write_buffer (args.rs) on every bounded content    *)
(*   SpecDecide - Args::should_include (main.rs) on bounded pattern sets   *)
(*   Spec       - main() of main.rs: compile patterns, overwrite gate,     *)
(*                find_files, report, write loop, summary                  *)
(***************************************************************************)
EXTENDS Integers, Sequences, FiniteSets, TLC

VARIABLES
    split_in, split_out,        \* smart_pattern_split: argument / result
    render_in, render_out,      \* write_buffer: arguments / result
    decide_in, decide_out,      \* should_include: arguments / result
    args,                       \* main: the parsed Args
    exclude_regexs,             \* Args.exclude_regexs : Option<Vec<Regex>>
    include_regexs,             \* Args.include_regexs : Option<Vec<Regex>>
    tree,                       \* the directory tree under args.dir
    out_file,                   \* the output file on disk
    answer,                     \* the line read from stdin by ask_continue
    pc,                         \* main's position
    stack,                      \* find_files: activation frames
    files,                      \* find_files' result, then main's files
    reported,                   \* what main printed as "Found N files"
    idx,                        \* main's write loop: next index into files
    io_log,                     \* filesystem operations performed by this run
    err                         \* the error main returned, if any

pureVars == <<split_in, split_out, render_in, render_out, decide_in, decide_out>>
mainVars == <<args, exclude_regexs, include_regexs, tree, out_file, answer,
              pc, stack, files, reported, idx, io_log, err>>
vars == <<pureVars, mainVars>>

\* Option<T>
None == [some |-> FALSE]
Some(v) == [some |-> TRUE, val |-> v]

----------------------------------------------------------------------------
(* Bounds *)

MaxSplitLen == 5
MaxContentLen == 5
MaxDepth == 3
MaxPatterns == 2

----------------------------------------------------------------------------
(* Sequence helpers *)

RECURSIVE Concat(_)
Concat(ss) == IF ss = <<>> THEN <<>> ELSE Head(ss) \o Concat(Tail(ss))

StrsUpTo(alphabet, n) == UNION {[1..k -> alphabet] : k \in 0..n}

\* str::starts_with / str::ends_with
starts_with(s, p) == Len(s) >= Len(p) /\ SubSeq(s, 1, Len(p)) = p
ends_with(s, p) == Len(s) >= Len(p) /\ SubSeq(s, Len(s) - Len(p) + 1, Len(s)) = p

\* str::replace for a one-character needle
replace(s, from, to) == [i \in 1..Len(s) |-> IF s[i] = from THEN to ELSE s[i]]

----------------------------------------------------------------------------
(* utils.rs: smart_pattern_split *)

SplitAlphabet == {"a", "b", ",", "{", "}"}

\* '{' => brace_depth += 1
BraceOpen(brace_depth) == brace_depth + 1

BraceCloseNoFloor(brace_depth) == brace_depth - 1

\* '}' => if brace_depth > 0 { brace_depth -= 1 }
BraceClose(brace_depth) == IF brace_depth > 0 THEN brace_depth - 1 ELSE brace_depth

\* One iteration of 'for ch in pattern_str.chars()', on the loop state
\* st = [patterns, current_pattern, brace_depth].
SplitStep(st, ch) ==
    IF ch = "{" THEN
        [st EXCEPT !.brace_depth = BraceOpen(@),
                   !.current_pattern = Append(@, ch)]
    ELSE IF ch = "}" THEN
        [st EXCEPT !.brace_depth = BraceClose(@),
                   !.current_pattern = Append(@, ch)]
    ELSE IF ch = "," /\ st.brace_depth = 0 THEN
        IF st.current_pattern # <<>>
        THEN [st EXCEPT !.patterns = Append(@, st.current_pattern),
                        !.current_pattern = <<>>]
        ELSE st
    ELSE
        [st EXCEPT !.current_pattern = Append(@, ch)]

RECURSIVE SplitLoop(_, _)
SplitLoop(st, rest) ==
    IF rest = <<>> THEN st ELSE SplitLoop(SplitStep(st, Head(rest)), Tail(rest))

smart_pattern_split(pattern_str) ==
    LET st == SplitLoop([patterns |-> <<>>, current_pattern |-> <<>>,
                         brace_depth |-> 0], pattern_str)
    IN IF st.current_pattern # <<>>
       THEN Append(st.patterns, st.current_pattern)
       ELSE st.patterns

InitSplit ==
    /\ split_in \in StrsUpTo(SplitAlphabet, MaxSplitLen)
    /\ split_out = None

CallSplit ==
    /\ split_out = None
    /\ split_out' = Some(smart_pattern_split(split_in))
    /\ UNCHANGED split_in

----------------------------------------------------------------------------
(* utils.rs: detect_language_from_path *)

\* {ext: lang}
LANG_EXT_MD_MAP ==
    { <<<<"r","s">>, <<"r","u","s","t">>>>,
      <<<<"g","o">>, <<"g","o">>>>,
      <<<<"s","w","i","f","t">>, <<"s","w","i","f","t">>>>,
      <<<<"d","a","r","t">>, <<"d","a","r","t">>>>,
      <<<<"j","s">>, <<"j","a","v","a","s","c","r","i","p","t">>>>,
      <<<<"t","s">>, <<"t","y","p","e","s","c","r","i","p","t">>>>,
      <<<<"p","y">>, <<"p","y","t","h","o","n">>>>,
      <<<<"y","a","m","l">>, <<"y","a","m","l">>>>,
      <<<<"y","m","l">>, <<"y","a","m","l">>>>,
      <<<<"x","m","l">>, <<"x","m","l">>>>,
      <<<<"t","o","m","l">>, <<"t","o","m","l">>>>,
      <<<<"j","a","v","a">>, <<"j","a","v","a">>>>,
      <<<<"s","h">>, <<"b","a","s","h">>>>,
      <<<<"h","t","m","l">>, <<"h","t","m","l">>>>,
      <<<<"h","t","m">>, <<"h","t","m","l">>>>,
      <<<<"c","s","s">>, <<"c","s","s">>>>,
      <<<<"j","s","o","n">>, <<"j","s","o","n">>>>,
      <<<<"m","d">>, <<"m","a","r","k","d","o","w","n">>>>,
      <<<<"s","q","l">>, <<"s","q","l">>>>,
      <<<<"c">>, <<"c">>>>,
      <<<<"h">>, <<"c">>>>,
      <<<<"c","p","p">>, <<"c","p","p">>>>,
      <<<<"h","p","p">>, <<"c","p","p">>>>,
      <<<<"c","c">>, <<"c","p","p">>>>,
      <<<<"c","x","x">>, <<"c","p","p">>>>,
      <<<<"k","t">>, <<"k","o","t","l","i","n">>>>,
      <<<<"k","t","s">>, <<"k","o","t","l","i","n">>>>,
      <<<<"r">>, <<"r">>>>,
      <<<<"e","x">>, <<"e","l","i","x","i","r">>>>,
      <<<<"e","x","s">>, <<"e","l","i","x","i","r">>>>,
      <<<<"h","s">>, <<"h","a","s","k","e","l","l">>>>,
      <<<<"p","l">>, <<"p","e","r","l">>>>,
      <<<<"c","s">>, <<"c","s","h","a","r","p">>>>,
      <<<<"f","s">>, <<"f","s","h","a","r","p">>>>,
      <<<<"f","s","x">>, <<"f","s","h","a","r","p">>>>,
      <<<<"r","b">>, <<"r","u","b","y">>>>,
      <<<<"p","h","p">>, <<"p","h","p">>>>,
      <<<<"c","s","v">>, <<"c","s","v">>>>,
      <<<<"b","a","t">>, <<"b","a","t","c","h">>>>,
      <<<<"p","s","1">>, <<"p","o","w","e","r","s","h","e","l","l">>>>,
      <<<<"p","s","m","1">>, <<"p","o","w","e","r","s","h","e","l","l">>>>,
      <<<<"p","s","d","1">>, <<"p","o","w","e","r","s","h","e","l","l">>>>,
      <<<<"p","s","1","x","m","l">>, <<"p","o","w","e","r","s","h","e","l","l">>>>,
      <<<<"c","m","d">>, <<"b","a","t","c","h">>>>,
      <<<<"v","b","s">>, <<"v","b","s","c","r","i","p","t">>>> }

UpperChars == <<"A","B","C","D","E","F","G","H","I","J","K","L","M",
                "N","O","P","Q","R","S","T","U","V","W","X","Y","Z">>
LowerChars == <<"a","b","c","d","e","f","g","h","i","j","k","l","m",
                "n","o","p","q","r","s","t","u","v","w","x","y","z">>

\* str::to_lowercase (ASCII range)
to_lowercase(s) ==
    [i \in 1..Len(s) |->
        IF \E k \in 1..Len(UpperChars) : UpperChars[k] = s[i]
        THEN LowerChars[CHOOSE k \in 1..Len(UpperChars) : UpperChars[k] = s[i]]
        ELSE s[i]]

\* Path::file_name: the text after the last '/' (None when it is empty)
file_name(path) ==
    LET slashes == {i \in 1..Len(path) : path[i] = "/"}
        from == IF slashes = {} THEN 1
                ELSE (CHOOSE i \in slashes : \A j \in slashes : j <= i) + 1
        name == SubSeq(path, from, Len(path))
    IN IF name = <<>> THEN None ELSE Some(name)

\* Path::extension: the text after the last '.' of the file name; None when
\* the name has no '.', or its only '.' is its first character
extension(path) ==
    LET fname == file_name(path)
    IN IF ~fname.some THEN None
       ELSE LET n == fname.val
                dots == {i \in 1..Len(n) : n[i] = "."}
                last == CHOOSE i \in dots : \A j \in dots : j <= i
            IN IF dots = {} \/ last = 1 THEN None
               ELSE Some(SubSeq(n, last + 1, Len(n)))

detect_language_from_path(path) ==
    LET ext == extension(path)
    IN IF ~ext.some THEN None
       ELSE LET e == to_lowercase(ext.val)
            IN IF \E kv \in LANG_EXT_MD_MAP : kv[1] = e
               THEN Some((CHOOSE kv \in LANG_EXT_MD_MAP : kv[1] = e)[2])
               ELSE None

----------------------------------------------------------------------------
(* args.rs: Args::write_buffer *)

ContentAlphabet == {"a", "\n", "\r"}

Digits == <<"0","1","2","3","4","5","6","7","8","9">>

\* format!("{}", n) for an unsigned integer
RECURSIVE ToDec(_)
ToDec(n) == IF n < 10 THEN <<Digits[n + 1]>>
            ELSE Append(ToDec(n \div 10), Digits[(n % 10) + 1])

\* str::split_inclusive('\n'): pieces end with their '\n'; a last piece
\* without one is yielded only when it is not empty
RECURSIVE split_inclusive(_, _)
split_inclusive(s, cur) ==
    IF s = <<>> THEN (IF cur = <<>> THEN <<>> ELSE <<cur>>)
    ELSE IF Head(s) = "\n"
         THEN <<Append(cur, "\n")>> \o split_inclusive(Tail(s), <<>>)
         ELSE split_inclusive(Tail(s), Append(cur, Head(s)))

\* the closure of str::lines: strip one '\n', and then one '\r', from the end
strip_line_ending(piece) ==
    IF ~ends_with(piece, <<"\n">>) THEN piece
    ELSE LET l == SubSeq(piece, 1, Len(piece) - 1)
         IN IF ends_with(l, <<"\r">>) THEN SubSeq(l, 1, Len(l) - 1) ELSE l

\* str::lines
lines(content) ==
    LET pieces == split_inclusive(content, <<>>)
    IN [k \in 1..Len(pieces) |-> strip_line_ending(pieces[k])]

LineNoZeroBased(i) == i

\* the number written before a line: i + 1 for enumerate()'s index i
LineNo(i) == i + 1

\* The body of 'for (i, line) in lines' for one (i, line)
WriteLine(self, buffer, i, line) ==
    IF line = <<>> /\ self.ignore_empty_lines THEN buffer
    ELSE IF self.line_number
         THEN buffer \o ToDec(LineNo(i)) \o <<"\t">> \o line \o <<"\n">>
         ELSE LET b == buffer \o line
              IN IF ~ends_with(line, <<"\n">>) THEN Append(b, "\n") ELSE b

RECURSIVE WriteLines(_, _, _, _)
WriteLines(self, buffer, ls, i) ==
    IF i >= Len(ls) THEN buffer
    ELSE WriteLines(self, WriteLine(self, buffer, i, ls[i + 1]), ls, i + 1)

\* the backtick character (U+0060), which a TLA+ string cannot hold
Tick == "BACKTICK"

\* "## {path}\n\n"
BlockHeader(path) == <<"#", "#", " ">> \o path \o <<"\n", "\n">>

\* the opening fence: three backticks, the language tag if any, '\n'
OpenFence(path) ==
    LET language == detect_language_from_path(path)
    IN <<Tick, Tick, Tick>> \o (IF language.some THEN language.val ELSE <<>>)
       \o <<"\n">>

\* the closing fence: three backticks and "\n\n"
CloseFence == <<Tick, Tick, Tick, "\n", "\n">>

write_buffer(self, path, content, size) ==
    LET buffer0 == BlockHeader(path) \o OpenFence(path)
        buffer1 == WriteLines(self, buffer0, lines(content), 0)
    IN buffer1 \o CloseFence

RenderPaths == { <<"a", ".", "r", "s">>,
                 <<"d", "/", "B", ".", "P", "Y">>,
                 <<"x", ".", "z", "z">>,
                 <<"d", ".", "r", "s", "/", "m", "k">> }

InitRender ==
    /\ render_in \in [path : RenderPaths,
                      content : StrsUpTo(ContentAlphabet, MaxContentLen),
                      line_number : BOOLEAN,
                      ignore_empty_lines : BOOLEAN]
    /\ render_out = None

CallRender ==
    /\ render_out = None
    /\ render_out' = Some(write_buffer(render_in, render_in.path,
                                       render_in.content,
                                       Len(render_in.content)))
    /\ UNCHANGED render_in

----------------------------------------------------------------------------
(* main.rs: the regex crate, on the pattern syntax the model draws from:   *)
(* literal characters, '.', a postfix '*', and a final '$'.                *)

\* Regex::new(p): Err when a repetition operator has nothing to repeat
\* (as in the glob "*.rs" given as a regex), Ok(p) otherwise
Regex_new(p) ==
    IF p # <<>> /\ p[1] = "*" THEN None ELSE Some(p)

AtomMatches(atom, ch) == atom = "." \/ atom = ch

RECURSIVE MatchHere(_, _)
MatchHere(re, text) ==
    IF re = <<>> THEN TRUE
    ELSE IF Len(re) >= 2 /\ re[2] = "*" THEN
        \E k \in 0..Len(text) :
            /\ \A i \in 1..k : AtomMatches(re[1], text[i])
            /\ MatchHere(SubSeq(re, 3, Len(re)), SubSeq(text, k + 1, Len(text)))
    ELSE IF re = <<"$">> THEN text = <<>>
    ELSE /\ text # <<>>
         /\ AtomMatches(re[1], text[1])
         /\ MatchHere(Tail(re), Tail(text))

\* Regex::is_match: an unanchored search
is_match(re, text) ==
    \E i \in 0..Len(text) : MatchHere(re, SubSeq(text, i + 1, Len(text)))

----------------------------------------------------------------------------
(* main.rs: Args::should_include *)

DefaultWhenEitherEmpty(default_include, exclude_is_empty, include_is_empty) ==
    IF default_include.some THEN default_include.val
    ELSE exclude_is_empty \/ include_is_empty

\* default_include.unwrap_or(exclude_is_empty && include_is_empty)
DefaultDecision(default_include, exclude_is_empty, include_is_empty) ==
    IF default_include.some THEN default_include.val
    ELSE exclude_is_empty /\ include_is_empty

\* patterns.iter().any(|re| re.is_match(path))
AnyMatch(patterns, path) ==
    \E k \in 1..Len(patterns) : is_match(patterns[k], path)

\* self = [exclude_regexs, include_regexs]
should_include(self, path, default_include) ==
    LET exclude_is_empty == IF self.exclude_regexs.some
                            THEN self.exclude_regexs.val = <<>> ELSE TRUE
        include_is_empty == IF self.include_regexs.some
                            THEN self.include_regexs.val = <<>> ELSE TRUE
    IN IF /\ self.exclude_regexs.some
          /\ ~exclude_is_empty
          /\ AnyMatch(self.exclude_regexs.val, path)
       THEN FALSE
       ELSE IF /\ self.include_regexs.some
               /\ ~include_is_empty
               /\ AnyMatch(self.include_regexs.val, path)
            THEN TRUE
            ELSE DefaultDecision(default_include, exclude_is_empty,
                                 include_is_empty)

DecidePatterns == { <<"t", "m", "p", "$">>,
                    <<"r", "s", "$">>,
                    <<"d", "/", ".", "*", "s">> }

DecidePaths == { <<"x", ".", "t", "m", "p">>,
                 <<"x", ".", "m", "d">>,
                 <<"a", ".", "r", "s">>,
                 <<"d", "/", "c", ".", "r", "s">> }

OptionOf(S) == {None} \cup {Some(v) : v \in S}

InitDecide ==
    /\ decide_in \in
         [path : DecidePaths,
          exclude_regexs : OptionOf(StrsUpTo(DecidePatterns, MaxPatterns)),
          include_regexs : OptionOf(StrsUpTo(DecidePatterns, MaxPatterns)),
          default_include : OptionOf(BOOLEAN)]
    /\ decide_out = None

CallDecide ==
    /\ decide_out = None
    /\ decide_out' = Some(should_include(decide_in, decide_in.path,
                                         decide_in.default_include))
    /\ UNCHANGED decide_in

----------------------------------------------------------------------------
(* main.rs: Args::path_to_normalized_string *)

\* std::path::MAIN_SEPARATOR of a Unix build
MAIN_SEPARATOR == "/"

\* A path is [chars, utf8]: Path::to_str is None when it is not valid UTF-8
path_to_normalized_string(self, path) ==
    IF ~path.utf8 THEN None
    ELSE LET normalized == replace(path.chars, "\\", "/")
         IN IF starts_with(normalized, self.relative_prefix)
            THEN Some(SubSeq(normalized, Len(self.relative_prefix) + 1,
                             Len(normalized)))
            ELSE Some(normalized)

----------------------------------------------------------------------------
(* main.rs: ask_continue *)

IsSpace(ch) == ch \in {" ", "\n", "\r", "\t"}

\* str::trim
RECURSIVE trim_start(_)
trim_start(s) == IF s # <<>> /\ IsSpace(Head(s)) THEN trim_start(Tail(s)) ELSE s

RECURSIVE trim_end(_)
trim_end(s) == IF s # <<>> /\ IsSpace(s[Len(s)])
               THEN trim_end(SubSeq(s, 1, Len(s) - 1)) ELSE s

trim(s) == trim_end(trim_start(s))

ask_continue_always(line, default_value) == TRUE

\* The Ok value of ask_continue when stdin delivers 'line'
ask_continue(line, default_value) ==
    LET ans == trim(line)
    IN IF ans = <<>> THEN default_value
       ELSE LET lower_answer == to_lowercase(ans)
            IN lower_answer = <<"y">> \/ lower_answer = <<"y", "e", "s">>

\* What read_line can deliver (an empty line is end of input)
AnswerLines == { <<>>, <<"\n">>, <<"y", "\n">>, <<"Y", "\r", "\n">>,
                 <<" ", "Y", "e", "s", " ", "\n">>, <<"n", "\n">>,
                 <<"N", "o", "\n">>, <<"y", "e", "\n">>, <<"q", "\n">> }

----------------------------------------------------------------------------
(* main.rs: the run's inputs *)

\* -e / -i values: regexes separated by commas
ExcludeArgs == { None,
                 Some(<<>>),
                 Some(<<"m", "d", "$">>),
                 Some(<<"*", ".", "m", "d">>) }

IncludeArgs == { None,
                 Some(<<"r", "s", "$">>),
                 Some(<<"r", "s", "$", ",", ",", "*", ".", "m", "d">>),
                 Some(<<"d", "/", ".", "*", "s">>) }

FileEntry(chars, utf8, ignored) ==
    [path |-> [chars |-> chars, utf8 |-> utf8], kind |-> "file",
     ignored |-> ignored]
DirEntry(chars, ignored) ==
    [path |-> [chars |-> chars, utf8 |-> TRUE], kind |-> "dir",
     ignored |-> ignored]
\* neither a directory nor a regular file (a dangling symlink)
OtherEntry(chars) ==
    [path |-> [chars |-> chars, utf8 |-> TRUE], kind |-> "other",
     ignored |-> FALSE]
\* an entry the directory iterator yields as Err
ErrEntry ==
    [path |-> [chars |-> <<>>, utf8 |-> TRUE], kind |-> "err",
     ignored |-> FALSE]

Dot == <<".">>
P_a == <<".", "/", "a", ".", "r", "s">>
P_b == <<".", "/", "b", ".", "m", "d">>
P_d == <<".", "/", "d">>
P_c == <<".", "/", "d", "/", "c", ".", "r", "s">>
P_t == <<".", "/", "t", ".", "m", "d">>
P_l == <<".", "/", "l">>
P_u == <<".", "/", "?">>

FileContent ==
    (P_a :> <<"x", "\n">>) @@ (P_b :> <<"y">>) @@ (P_c :> <<>>)
    @@ (P_t :> <<"z", "\n", "\n", "w", "\n">>) @@ (P_u :> <<"u">>)

\* listing[d]: what iterating directory d yields, in order
FlatTree ==
    [listing |-> (Dot :> << FileEntry(P_a, TRUE, FALSE),
                            FileEntry(P_b, TRUE, FALSE) >>)]
NestedTree ==
    [listing |-> (Dot :> << FileEntry(P_a, TRUE, FALSE),
                            DirEntry(P_d, FALSE),
                            FileEntry(P_b, TRUE, FALSE) >>)
                 @@ (P_d :> << FileEntry(P_c, TRUE, FALSE) >>)]
OddTree ==
    [listing |-> (Dot :> << FileEntry(P_t, TRUE, TRUE),
                            OtherEntry(P_l),
                            FileEntry(P_u, FALSE, FALSE),
                            FileEntry(P_a, TRUE, FALSE) >>)]
BrokenTree ==
    [listing |-> (Dot :> << FileEntry(P_a, TRUE, FALSE),
                            ErrEntry,
                            FileEntry(P_b, TRUE, FALSE) >>)]

Trees == {FlatTree, NestedTree, OddTree, BrokenTree}

\* the longest chain of directories below (and including) the root
TreeHeight(t) == IF P_d \in DOMAIN t.listing THEN 2 ELSE 1

----------------------------------------------------------------------------
(* main.rs: main, pattern compilation (lines 181-199) *)

\* str::split(','): every piece between commas, empty ones included
RECURSIVE split_comma(_, _)
split_comma(s, cur) ==
    IF s = <<>> THEN <<cur>>
    ELSE IF Head(s) = "," THEN <<cur>> \o split_comma(Tail(s), <<>>)
         ELSE split_comma(Tail(s), Append(cur, Head(s)))

\* .filter(|p| !p.is_empty())
RECURSIVE filter_non_empty(_)
filter_non_empty(ps) ==
    IF ps = <<>> THEN <<>>
    ELSE (IF Head(ps) = <<>> THEN <<>> ELSE <<Head(ps)>>)
         \o filter_non_empty(Tail(ps))

\* .filter_map(|p| Regex::new(p).ok())
RECURSIVE filter_map_regex(_)
filter_map_regex(ps) ==
    IF ps = <<>> THEN <<>>
    ELSE (IF Regex_new(Head(ps)).some
          THEN <<Regex_new(Head(ps)).val>> ELSE <<>>)
         \o filter_map_regex(Tail(ps))

\* exclude.split(',').filter(..).filter_map(..).collect()
compile_patterns(raw) ==
    filter_map_regex(filter_non_empty(split_comma(raw, <<>>)))

----------------------------------------------------------------------------
(* main.rs: find_files *)

\* What the ignore crate's walker yields for standard_filters(true): the
\* entries depth first in directory order, an ignored entry (and all below
\* it) left out
RECURSIVE WalkEntries(_, _)
WalkEntries(t, es) ==
    IF es = <<>> THEN <<>>
    ELSE LET e == Head(es)
         IN (IF e.ignored THEN <<>>
             ELSE <<e>> \o (IF e.kind = "dir"
                            THEN WalkEntries(t, t.listing[e.path.chars])
                            ELSE <<>>))
            \o WalkEntries(t, Tail(es))

\* WalkBuilder::new(dir).standard_filters(true).build(): the root, then
\* what is below it
Walker(t, dir) == <<DirEntry(dir, FALSE)>> \o WalkEntries(t, t.listing[dir])

\* The directory the recursive call 'find_files(args)' reads for the
\* subdirectory 'path': args is passed on unchanged, so it is args.dir
RecurseInto(self, path) == self.dir

\* default_include of the call in the ignore-aware branch (line 146)
WalkDefault == Some(TRUE)

\* default_include of the call in the read_dir branch (line 163)
ReadDirDefault == None

Frame(dir, entries) ==
    [dir |-> dir, entries |-> entries, path |-> None, files |-> <<>>]

Matcher == [exclude_regexs |-> exclude_regexs, include_regexs |-> include_regexs]

\* 'files' after the body of either loop has seen a regular file
PushIfIncluded(fs, path, default_include) ==
    LET normalized_path == path_to_normalized_string(args, path)
    IN IF normalized_path.some
          /\ should_include(Matcher, normalized_path.val, default_include)
       THEN Append(fs, path)
       ELSE fs

Top == stack[Len(stack)]
SetTop(f) == [stack EXCEPT ![Len(stack)] = f]

----------------------------------------------------------------------------
(* main.rs: main *)

Fail(kind, file) ==
    /\ pc' = "failed"
    /\ err' = Some([kind |-> kind, file |-> file])

InitMain ==
    /\ args \in [exclude : ExcludeArgs, include : IncludeArgs,
                 line_number : BOOLEAN, respect_gitignore : BOOLEAN,
                 dir : {Dot}, relative_prefix : {<<>>}]
    /\ exclude_regexs = None
    /\ include_regexs = None
    /\ tree \in {[listing |-> t.listing, has_output |-> b] :
                    t \in Trees, b \in BOOLEAN}
    /\ out_file = [exists |-> tree.has_output, old |-> tree.has_output,
                   blocks |-> <<>>]
    /\ answer = None
    /\ pc = "start"
    /\ stack = <<>>
    /\ files = <<>>
    /\ reported = None
    /\ idx = 0
    /\ io_log = {}
    /\ err = None

\* lines 176-199
CompilePatterns ==
    /\ pc = "start"
    /\ UNCHANGED pureVars
    /\ args' = [args EXCEPT !.relative_prefix = <<MAIN_SEPARATOR, ".">>]
    /\ exclude_regexs' = IF args.exclude.some
                         THEN Some(compile_patterns(args.exclude.val))
                         ELSE None
    /\ include_regexs' = IF args.include.some
                         THEN Some(compile_patterns(args.include.val))
                         ELSE None
    /\ pc' = "check_output"
    /\ UNCHANGED <<tree, out_file, answer, stack, files, reported, idx,
                   io_log, err>>

\* line 203
CheckOutput ==
    /\ pc = "check_output"
    /\ UNCHANGED pureVars
    /\ pc' = IF out_file.exists THEN "ask" ELSE "find"
    /\ UNCHANGED <<args, exclude_regexs, include_regexs, tree, out_file,
                   answer, stack, files, reported, idx, io_log, err>>

\* lines 204-213: the prompt is answered
AskContinue ==
    /\ pc = "ask"
    /\ UNCHANGED pureVars
    /\ \E line \in AnswerLines :
          /\ answer' = Some(line)
          /\ pc' = IF ask_continue(line, TRUE) THEN "remove" ELSE "aborted"
    /\ UNCHANGED <<args, exclude_regexs, include_regexs, tree, out_file,
                   stack, files, reported, idx, io_log, err>>

\* line 210: flushing stdout or reading stdin fails
AskFails ==
    /\ pc = "ask"
    /\ UNCHANGED pureVars
    /\ Fail("stdin", None)
    /\ UNCHANGED <<args, exclude_regexs, include_regexs, tree, out_file,
                   answer, stack, files, reported, idx, io_log>>

\* lines 215-217
RemoveOutput ==
    /\ pc = "remove"
    /\ UNCHANGED pureVars
    /\ \E ok \in BOOLEAN :
          IF ok
          THEN /\ out_file' = [exists |-> FALSE, old |-> FALSE, blocks |-> <<>>]
               /\ io_log' = io_log \cup {"remove_file"}
               /\ pc' = "find"
               /\ UNCHANGED err
          ELSE /\ Fail("remove_file", None)
               /\ UNCHANGED <<out_file, io_log>>
    /\ UNCHANGED <<args, exclude_regexs, include_regexs, tree, answer, stack,
                   files, reported, idx>>

\* lines 125-129
WalkStart ==
    /\ pc = "find"
    /\ UNCHANGED pureVars
    /\ args.respect_gitignore
    /\ stack' = <<Frame(args.dir, Walker(tree, args.dir))>>
    /\ io_log' = io_log \cup {"walk"}
    /\ pc' = "walk"
    /\ UNCHANGED <<args, exclude_regexs, include_regexs, tree, out_file,
                   answer, files, reported, idx, err>>

\* lines 131-150: one iteration
WalkNext ==
    /\ pc = "walk"
    /\ UNCHANGED pureVars
    /\ Top.entries # <<>>
    /\ LET entry == Head(Top.entries)
       IN stack' = SetTop([Top EXCEPT
             !.entries = Tail(@),
             !.files = IF entry.kind = "file"
                       THEN PushIfIncluded(@, entry.path, WalkDefault)
                       ELSE @])
    /\ UNCHANGED <<args, exclude_regexs, include_regexs, tree, out_file,
                   answer, pc, files, reported, idx, io_log, err>>

\* line 171, and line 221
WalkDone ==
    /\ pc = "walk"
    /\ UNCHANGED pureVars
    /\ Top.entries = <<>>
    /\ files' = Top.files
    /\ stack' = <<>>
    /\ pc' = "report"
    /\ UNCHANGED <<args, exclude_regexs, include_regexs, tree, out_file,
                   answer, reported, idx, io_log, err>>

\* line 152, for the call made by main
ReadDirStart ==
    /\ pc = "find"
    /\ UNCHANGED pureVars
    /\ ~args.respect_gitignore
    /\ stack' = <<Frame(args.dir, tree.listing[args.dir])>>
    /\ io_log' = io_log \cup {"read_dir"}
    /\ pc' = "read_dir"
    /\ UNCHANGED <<args, exclude_regexs, include_regexs, tree, out_file,
                   answer, files, reported, idx, err>>

\* lines 153-167: one iteration on an entry that is no directory
ReadDirEntry ==
    /\ pc = "read_dir"
    /\ UNCHANGED pureVars
    /\ Top.entries # <<>>
    /\ LET entry == Head(Top.entries)
       IN /\ entry.kind # "dir"
          /\ IF entry.kind = "err"
             THEN /\ Fail("read_dir", None)
                  /\ stack' = <<>>
             ELSE /\ stack' = SetTop([Top EXCEPT
                        !.entries = Tail(@),
                        !.path = Some(entry.path),
                        !.files = IF entry.kind = "file"
                                  THEN PushIfIncluded(@, entry.path,
                                                      ReadDirDefault)
                                  ELSE @])
                  /\ UNCHANGED <<pc, err>>
    /\ UNCHANGED <<args, exclude_regexs, include_regexs, tree, out_file,
                   answer, files, reported, idx, io_log>>

\* lines 157-158: the entry is a directory, find_files calls itself
ReadDirRecurse ==
    /\ pc = "read_dir"
    /\ UNCHANGED pureVars
    /\ Top.entries # <<>>
    /\ Len(stack) < MaxDepth
    /\ LET entry == Head(Top.entries)
           dir == RecurseInto(args, entry.path)
       IN /\ entry.kind = "dir"
          /\ stack' = Append(SetTop([Top EXCEPT !.entries = Tail(@),
                                                !.path = Some(entry.path)]),
                             Frame(dir, tree.listing[dir]))
    /\ UNCHANGED <<args, exclude_regexs, include_regexs, tree, out_file,
                   answer, pc, files, reported, idx, io_log, err>>

\* line 171: a call returns, to its caller (line 159) or to main (line 221)
ReadDirReturn ==
    /\ pc = "read_dir"
    /\ UNCHANGED pureVars
    /\ Top.entries = <<>>
    /\ IF Len(stack) = 1
       THEN /\ files' = Top.files
            /\ stack' = <<>>
            /\ pc' = "report"
       ELSE /\ stack' = [i \in 1..(Len(stack) - 1) |->
                           IF i = Len(stack) - 1
                           THEN [stack[i] EXCEPT !.files = @ \o Top.files]
                           ELSE stack[i]]
            /\ UNCHANGED <<files, pc>>
    /\ UNCHANGED <<args, exclude_regexs, include_regexs, tree, out_file,
                   answer, reported, idx, io_log, err>>

\* lines 222-240
Report ==
    /\ pc = "report"
    /\ UNCHANGED pureVars
    /\ IF files = <<>>
       THEN pc' = "no_files" /\ UNCHANGED reported
       ELSE pc' = "create" /\ reported' = Some(Len(files))
    /\ UNCHANGED <<args, exclude_regexs, include_regexs, tree, out_file,
                   answer, stack, files, idx, io_log, err>>

\* line 243
CreateOutput ==
    /\ pc = "create"
    /\ UNCHANGED pureVars
    /\ \E ok \in BOOLEAN :
          IF ok
          THEN /\ out_file' = [exists |-> TRUE, old |-> FALSE, blocks |-> <<>>]
               /\ io_log' = io_log \cup {"create"}
               /\ pc' = "write"
               /\ UNCHANGED err
          ELSE /\ Fail("create", None)
               /\ UNCHANGED <<out_file, io_log>>
    /\ UNCHANGED <<args, exclude_regexs, include_regexs, tree, answer, stack,
                   files, reported, idx>>

\* lines 256-267: the body written for a file
RECURSIVE NumberedLines(_, _)
NumberedLines(ls, i) ==
    IF i >= Len(ls) THEN <<>>
    ELSE ToDec(i + 1) \o <<"\t">> \o ls[i + 1] \o <<"\n">>
         \o NumberedLines(ls, i + 1)

\* lines 252-269: everything written for a file
BlockText(self, normalized_path, content) ==
    normalized_path \o <<"\n", Tick, Tick, Tick, "\n">>
    \o (IF self.line_number THEN NumberedLines(lines(content), 0)
        ELSE content \o (IF ~ends_with(content, <<"\n">>)
                         THEN <<"\n">> ELSE <<>>))
    \o <<Tick, Tick, Tick, "\n", "\n">>

\* lines 246-248: read_to_string fails (the file was deleted, became
\* unreadable, or is not UTF-8); the error is returned from main
ReadFails ==
    /\ pc = "write"
    /\ UNCHANGED pureVars
    /\ idx < Len(files)
    /\ Fail("read_file", Some(files[idx + 1]))
    /\ io_log' = io_log \cup {"read_file"}
    /\ UNCHANGED <<args, exclude_regexs, include_regexs, tree, out_file,
                   answer, stack, files, reported, idx>>

\* lines 252-269: a write_all fails; the error is returned from main
WriteFails ==
    /\ pc = "write"
    /\ UNCHANGED pureVars
    /\ idx < Len(files)
    /\ path_to_normalized_string(args, files[idx + 1]).some
    /\ Fail("write", Some(files[idx + 1]))
    /\ io_log' = io_log \cup {"read_file", "write"}
    /\ UNCHANGED <<args, exclude_regexs, include_regexs, tree, out_file,
                   answer, stack, files, reported, idx>>

\* lines 245-271: one iteration in which the read and the writes succeed
WriteBlock ==
    /\ pc = "write"
    /\ UNCHANGED pureVars
    /\ idx < Len(files)
    /\ LET file_path == files[idx + 1]
           content == FileContent[file_path.chars]
           normalized_path == path_to_normalized_string(args, file_path)
       IN IF normalized_path.some
          THEN /\ out_file' = [out_file EXCEPT !.blocks = Append(@,
                     [file |-> file_path,
                      text |-> BlockText(args, normalized_path.val, content)])]
               /\ io_log' = io_log \cup {"read_file", "write"}
          ELSE /\ io_log' = io_log \cup {"read_file"}
               /\ UNCHANGED out_file
    /\ idx' = idx + 1
    /\ UNCHANGED <<args, exclude_regexs, include_regexs, tree, answer, pc,
                   stack, files, reported, err>>

\* lines 273-287
Summary ==
    /\ pc = "write"
    /\ UNCHANGED pureVars
    /\ idx = Len(files)
    /\ pc' = "done"
    /\ UNCHANGED <<args, exclude_regexs, include_regexs, tree, out_file,
                   answer, stack, files, reported, idx, io_log, err>>

----------------------------------------------------------------------------
(* Specifications *)

IdleSplit == split_in = <<>> /\ split_out = None
IdleRender == render_in = None /\ render_out = None
IdleDecide == decide_in = None /\ decide_out = None
IdleMain ==
    /\ args = None /\ exclude_regexs = None /\ include_regexs = None
    /\ tree = None /\ out_file = None /\ answer = None /\ pc = "idle"
    /\ stack = <<>> /\ files = <<>> /\ reported = None /\ idx = 0
    /\ io_log = {} /\ err = None

Init == IdleSplit /\ IdleRender /\ IdleDecide /\ InitMain

Next ==
    \/ CompilePatterns
    \/ CheckOutput
    \/ AskContinue
    \/ AskFails
    \/ RemoveOutput
    \/ WalkStart
    \/ WalkNext
    \/ WalkDone
    \/ ReadDirStart
    \/ ReadDirEntry
    \/ ReadDirRecurse
    \/ ReadDirReturn
    \/ Report
    \/ CreateOutput
    \/ ReadFails
    \/ WriteFails
    \/ WriteBlock
    \/ Summary

Spec == Init /\ [][Next]_vars

InitSplitSpec == InitSplit /\ IdleRender /\ IdleDecide /\ IdleMain
NextSplit == CallSplit /\ UNCHANGED <<render_in, render_out, decide_in, decide_out, mainVars>>
SpecSplit == InitSplitSpec /\ [][NextSplit]_vars

InitRenderSpec == IdleSplit /\ InitRender /\ IdleDecide /\ IdleMain
NextRender == CallRender /\ UNCHANGED <<split_in, split_out, decide_in, decide_out, mainVars>>
SpecRender == InitRenderSpec /\ [][NextRender]_vars

InitDecideSpec == IdleSplit /\ IdleRender /\ InitDecide /\ IdleMain
NextDecide == CallDecide /\ UNCHANGED <<split_in, split_out, render_in, render_out, mainVars>>
SpecDecide == InitDecideSpec /\ [][NextDecide]_vars

----------------------------------------------------------------------------
(* Helpers of the properties *)

\* the k-th smallest element of a finite set of integers
Kth(S, k) == CHOOSE x \in S : Cardinality({y \in S : y <= x}) = k

\* the least element of S above b
NextAbove(S, b) == CHOOSE x \in S : x > b /\ \A y \in S : y > b => x <= y

\* the brace depth after the first i characters of s
RECURSIVE DepthAfter(_, _)
DepthAfter(s, i) ==
    IF i = 0 THEN 0
    ELSE LET d == DepthAfter(s, i - 1)
         IN CASE s[i] = "{" -> d + 1
              [] s[i] = "}" -> IF d = 0 THEN 0 ELSE d - 1
              [] OTHER -> d

\* the positions of the commas of s that stand at brace depth 0
TopCommas(s) == {i \in 1..Len(s) : s[i] = "," /\ DepthAfter(s, i - 1) = 0}

\* the non-empty segments of s between those commas, in order
ExpectedSplit(s) ==
    LET ends == TopCommas(s) \cup {Len(s) + 1}
        starts == {b \in TopCommas(s) \cup {0} : NextAbove(ends, b) > b + 1}
    IN [k \in 1..Cardinality(starts) |->
          LET b == Kth(starts, k)
          IN SubSeq(s, b + 1, NextAbove(ends, b) - 1)]

\* The lines of a content, read off the positions of its newlines: line k
\* runs from after the (k-1)-th newline up to the k-th one (or to the end of
\* the content), without its terminator "\n" or "\r\n"
Newlines(c) == {i \in 1..Len(c) : c[i] = "\n"}

LineCount(c) ==
    Cardinality(Newlines(c))
    + (IF c # <<>> /\ c[Len(c)] # "\n" THEN 1 ELSE 0)

LineText(c, k) ==
    LET nl == Newlines(c)
        from == IF k = 1 THEN 1 ELSE Kth(nl, k - 1) + 1
        terminated == k <= Cardinality(nl)
        to == IF terminated THEN Kth(nl, k) - 1 ELSE Len(c)
        crlf == terminated /\ to >= from /\ c[to] = "\r"
    IN SubSeq(c, from, IF crlf THEN to - 1 ELSE to)

\* the entry of line k: nothing for a skipped line, otherwise the text,
\* numbered with k when asked for, and one newline
ExpectedEntry(opts, c, k) ==
    LET text == LineText(c, k)
    IN IF text = <<>> /\ opts.ignore_empty_lines THEN <<>>
       ELSE (IF opts.line_number THEN ToDec(k) \o <<"\t">> ELSE <<>>)
            \o text \o <<"\n">>

ExpectedBody(opts, c) ==
    Concat([k \in 1..LineCount(c) |-> ExpectedEntry(opts, c, k)])

\* what a block holds between its opening fence line and its closing fence
BodyOf(path, buffer) ==
    SubSeq(buffer, Len(BlockHeader(path)) + Len(OpenFence(path)) + 1,
           Len(buffer) - Len(CloseFence))

RenderedBody(in, content) ==
    BodyOf(in.path, write_buffer(in, in.path, content, Len(content)))

\* the answer accepts the overwrite: "y" or "yes" in any case, or nothing
\* but white space (the prompt's default, [Y/n])
Confirms(line) ==
    LET a == to_lowercase(trim(line))
    IN a = <<>> \/ a = <<"y">> \/ a = <<"y", "e", "s">>

IsEmptySet(opt) == ~opt.some \/ opt.val = <<>>

\* some pattern given with -e or -i is not a valid regex
InvalidPatternIn(raw) ==
    /\ raw.some
    /\ LET pieces == split_comma(raw.val, <<>>)
       IN \E k \in 1..Len(pieces) :
             pieces[k] # <<>> /\ ~Regex_new(pieces[k]).some

Ended == pc \in {"done", "failed", "aborted", "no_files"}

----------------------------------------------------------------------------
(* Properties *)

\* C1: should_include returns false when an exclude pattern matches the
\* path (also when an include pattern matches it too); otherwise true when
\* an include pattern matches; otherwise default_include when it is given,
\* and when it is None, true exactly when both pattern sets are empty.
C1_DecidePrecedence ==
    decide_out.some =>
        LET excl == decide_in.exclude_regexs
            incl == decide_in.include_regexs
            excluded == excl.some /\ \E k \in 1..Len(excl.val) :
                            is_match(excl.val[k], decide_in.path)
            included == incl.some /\ \E k \in 1..Len(incl.val) :
                            is_match(incl.val[k], decide_in.path)
        IN decide_out.val =
             (CASE excluded -> FALSE
                [] ~excluded /\ included -> TRUE
                [] ~excluded /\ ~included /\ decide_in.default_include.some ->
                       decide_in.default_include.val
                [] OTHER -> IsEmptySet(excl) /\ IsEmptySet(incl))

\* an exclude and an include pattern both match d/c.rs, and it is rejected
C1_Witness ==
    /\ decide_out.some
    /\ decide_in.path = <<"d", "/", "c", ".", "r", "s">>
    /\ decide_in.exclude_regexs = Some(<< <<"r", "s", "$">> >>)
    /\ decide_in.include_regexs = Some(<< <<"d", "/", ".", "*", "s">> >>)
    /\ decide_in.default_include = Some(TRUE)
    /\ decide_out.val = FALSE

\* C9: with exclude patterns and no include pattern, should_include(path,
\* None) is false for a path an exclude pattern matches and true for a path
\* no exclude pattern matches.
C9_ExcludeOnlyAcceptsUnmatched ==
    ( /\ decide_out.some
      /\ ~IsEmptySet(decide_in.exclude_regexs)
      /\ IsEmptySet(decide_in.include_regexs)
      /\ ~decide_in.default_include.some )
    => (decide_out.val = ~AnyMatch(decide_in.exclude_regexs.val, decide_in.path))

\* C5: smart_pattern_split returns, in order, exactly the non-empty
\* segments between the commas at brace depth 0 (depth never below 0); a
\* '}' at depth 0 is an ordinary character, and "" yields no pattern.
C5_SplitAtTopLevelCommas ==
    split_out.some =>
        /\ split_out.val = ExpectedSplit(split_in)
        /\ (split_in = <<>> => split_out.val = <<>>)
        /\ (split_in = <<"a", ",", "b", "}">>
              => split_out.val = << <<"a">>, <<"b", "}">> >>)

\* "a,b}" has been split
C5_Witness ==
    /\ split_out.some
    /\ split_in = <<"a", ",", "b", "}">>
    /\ Len(split_out.val) = 2

\* C6 as stated: the body is one entry per line that is not skipped, each
\* the line's text, numbered with its original position when line_number is
\* set, and one newline; and a content without a final newline has the body
\* of the same content with a final newline.
C6_BodyAndTrailingNewline ==
    render_out.some =>
        /\ BodyOf(render_in.path, render_out.val)
             = ExpectedBody(render_in, render_in.content)
        /\ (~ends_with(render_in.content, <<"\n">>) =>
              RenderedBody(render_in, render_in.content \o <<"\n">>)
                = BodyOf(render_in.path, render_out.val))

\* C6 as amended: the same body, and the body of a content that is not
\* empty and ends in neither "\n" nor "\r" is the body of that content with
\* a final newline.
C6_Body ==
    render_out.some =>
        /\ BodyOf(render_in.path, render_out.val)
             = ExpectedBody(render_in, render_in.content)
        /\ ( /\ render_in.content # <<>>
             /\ ~ends_with(render_in.content, <<"\n">>)
             /\ ~ends_with(render_in.content, <<"\r">>) )
           => RenderedBody(render_in, render_in.content \o <<"\n">>)
                = BodyOf(render_in.path, render_out.val)

\* "a\n\na" rendered with numbers and without its empty line: 1 and 3
C6_Witness ==
    /\ render_out.some
    /\ render_in.content = <<"a", "\n", "\n", "a">>
    /\ render_in.line_number
    /\ render_in.ignore_empty_lines
    /\ BodyOf(render_in.path, render_out.val)
         = <<"1", "\t", "a", "\n", "3", "\t", "a", "\n">>

\* C2: with an include pattern configured, every file find_files selects
\* matches an include pattern and no exclude pattern, whether or not the
\* standard ignore rules are respected.
C2_SelectedMatchInclude ==
    ~IsEmptySet(include_regexs) =>
        \A i \in 1..Len(files) :
            LET n == path_to_normalized_string(args, files[i])
            IN /\ n.some
               /\ AnyMatch(include_regexs.val, n.val)
               /\ ~(exclude_regexs.some /\ AnyMatch(exclude_regexs.val, n.val))

\* C3: descending into a subdirectory walks that subdirectory, never the
\* root again, so the calls nest no deeper than the tree.
C3_DescendsIntoSubdirectory ==
    /\ \A i \in 2..Len(stack) :
          /\ stack[i - 1].path.some
          /\ stack[i].dir = stack[i - 1].path.val.chars
    /\ Len(stack) <= TreeHeight(tree)

\* C4: a selected file that cannot be read is skipped and the run goes on:
\* a failed read never ends the run.
C4_ReadFailureDoesNotAbort ==
    ~(pc = "failed" /\ err.some /\ err.val.kind = "read_file")

\* C7: with an invalid pattern configured, the run fails with a pattern
\* error before anything is traversed, selected or written.
C7_InvalidPatternAborts ==
    ( /\ pc \notin {"idle", "start"}
      /\ InvalidPatternIn(args.exclude) \/ InvalidPatternIn(args.include) )
    => /\ pc = "failed"
       /\ err.some
       /\ err.val.kind = "pattern_compile"
       /\ io_log = {}
       /\ files = <<>>

\* C8: the number of files reported is never above the number of blocks
\* the output holds when the run ends.
C8_ReportedNotAboveWritten ==
    (Ended /\ reported.some) => reported.val <= Len(out_file.blocks)

\* C10: an output file that exists is deleted only after the overwrite is
\* confirmed; when it is declined the run ends with the file as it was and
\* with nothing traversed, read or written.
C10_OverwriteGate ==
    pc # "idle" =>
        /\ (tree.has_output /\ ~out_file.old)
             => (answer.some /\ Confirms(answer.val))
        /\ (answer.some /\ ~Confirms(answer.val))
             => /\ pc = "aborted"
                /\ out_file = [exists |-> TRUE, old |-> TRUE, blocks |-> <<>>]
                /\ io_log = {}
                /\ stack = <<>>
                /\ files = <<>>

\* the overwrite was declined with "No"
C10_Witness ==
    /\ pc = "aborted"
    /\ answer = Some(<<"N", "o", "\n">>)
    /\ out_file.old

============================================================================
